---- MODULE Spec2Model ----
(***************************************************************************)
(* Model of custom_components/mikettle/mikettle.py: the MiKettle device    *)
(* handle (stream cipher, key derivation, authentication handshake,        *)
(* status decoder and the cached reader with its lock, TTL and backoff).   *)
(*                                                                         *)
(* Times are in seconds.  Bytes are integers 0..255, byte sequences are    *)
(* TLA+ sequences (index 1 is Python index 0).  An attribute that is None  *)
(* or a value v is the empty sequence or <<v>>; _ekey is None or its bytes.*)
(***************************************************************************)
EXTENDS Integers, Sequences, FiniteSets, TLC

None == <<>>
Some(v) == <<v>>
\* a notification payload that is None (the link never delivers one)
NoPayload == <<-1>>

(***************************************************************************)
(* Bounds of the model.                                                    *)
(***************************************************************************)
NumThreads == 2      \* threads calling parameter_value on the one handle
MaxTicks == 3        \* number of clock advances in a behaviour
TickLen == 150       \* seconds by which one clock advance moves now()

Threads == 1..NumThreads
MaxTime == MaxTicks * TickLen

(***************************************************************************)
(* Module constants (mikettle.py lines 10-52).                             *)
(***************************************************************************)
SESSION_START == <<0, 188, 67, 205>>
SESSION_END == <<9, 172, 191, 147>>
CONFIRMATION == <<201, 88, 154, 54>>
TOKEN == <<213, 235, 232, 255, 139, 153, 165, 39, 38, 20, 84, 18>>
SUBSCRIBE_TRUE == <<1, 0>>

HANDLE_AUTH_INIT == 44
HANDLE_AUTH == 37
HANDLE_VERSION == 42
HANDLE_STATUS == 61

MI_ACTION == "action"
MI_MODE == "mode"
MI_SET_TEMPERATURE == "set temperature"
MI_CURRENT_TEMPERATURE == "current temperature"
MI_KW_TYPE == "keep warm type"
MI_KW_TIME == "keep warm time"

MI_ACTION_MAP == (0 :> "idle") @@ (1 :> "heating") @@ (2 :> "cooling") @@ (3 :> "keeping warm")
MI_MODE_MAP == (255 :> "none") @@ (1 :> "boil") @@ (3 :> "keep warm")
MI_KW_TYPE_MAP == (0 :> "warm up") @@ (1 :> "cool down")

\* timedelta(seconds=300) of fill_cache and handleNotification
BackoffSeconds == 300

(***************************************************************************)
(* Byte arithmetic.                                                        *)
(***************************************************************************)
RECURSIVE BitXor(_, _, _)
BitXor(a, b, n) ==
    IF n = 0 THEN 0
    ELSE (((a % 2) + (b % 2)) % 2) + (2 * BitXor(a \div 2, b \div 2, n - 1))

\* addition modulo 256 in place of ^
XorAsAdd(a, b) == (a + b) % 256

\* the ^ operator on two bytes
Xor(a, b) == BitXor(a, b, 8)

\* perm[i], perm[j] = perm[j], perm[i]
Swap(perm, i, j) == [perm EXCEPT ![i] = perm[j], ![j] = perm[i]]

(***************************************************************************)
(* Cipher engine.                                                          *)
(***************************************************************************)
\* one iteration of the key-scheduling loop, lines 234-236
KeyScheduleStep(st, key, i) ==
    LET j2 == (st.j + st.perm[i] + key[(i % Len(key)) + 1]) % 256
    IN  [perm |-> Swap(st.perm, i, j2), j |-> j2]

\* iterations i .. hi-1 of the key-scheduling loop
RECURSIVE KeyScheduleRun(_, _, _, _)
KeyScheduleRun(st, key, i, hi) ==
    IF i = hi THEN st
    ELSE LET st2 == KeyScheduleStep(st, key, i)
         \* the test makes the evaluator compute st2 before the next iteration
         IN  IF st2.j \in 0..255 THEN KeyScheduleRun(st2, key, i + 1, hi) ELSE st2

\* the 256 iterations, in 16 runs of 16
RECURSIVE KeyScheduleLoop(_, _, _)
KeyScheduleLoop(st, key, b) ==
    IF b = 16 THEN st
    ELSE LET st2 == KeyScheduleRun(st, key, 16 * b, (16 * b) + 16)
         IN  IF st2.j \in 0..255 THEN KeyScheduleLoop(st2, key, b + 1) ELSE st2

cipherInit(key) ==
    KeyScheduleLoop([perm |-> [i \in 0..255 |-> i], j |-> 0], key, 0).perm

RECURSIVE CryptLoop(_, _, _, _, _, _)
CryptLoop(input, perm, i, index1, index2, output) ==
    IF i > Len(input) THEN output
    ELSE LET i1 == (index1 + 1) % 256
             i2 == (index2 + perm[i1]) % 256
             p2 == Swap(perm, i1, i2)
             idx == (p2[i1] + p2[i2]) % 256
             outputByte == Xor(input[i], p2[idx])
         IN  CryptLoop(input, p2, i + 1, i1, i2, Append(output, outputByte % 256))

cipherCrypt(input, perm) == CryptLoop(input, perm, 1, 0, 0, <<>>)

cipher(key, input) == cipherCrypt(input, cipherInit(key))

(***************************************************************************)
(* Key derivation.                                                         *)
(***************************************************************************)
\* tick[i] for i in 0..2 is an IndexError when the challenge has < 3 bytes
generateEkeyRaises(challenge) == Len(challenge) < 3

generateEkey(token, challenge) ==
    LET tick == cipher(token, challenge)
    IN  <<Xor(token[1], tick[1]), Xor(token[2], tick[2]), Xor(token[3], tick[3])>>
            \o SubSeq(token, 4, Len(token))

challengeResponse(ekey) == cipher(ekey, SESSION_END)

\* sequence[0:4]
Slice04(s) == SubSeq(s, 1, IF Len(s) < 4 THEN Len(s) ELSE 4)

checkConfirmation(ekey, confirmation) ==
    Slice04(cipher(ekey, confirmation)) = CONFIRMATION

(***************************************************************************)
(* Status decoder.                                                         *)
(***************************************************************************)
RECURSIVE bytes_to_int_loop(_, _, _)
bytes_to_int_loop(bytes, i, result) ==
    IF i > Len(bytes) THEN result
    ELSE bytes_to_int_loop(bytes, i + 1, (result * 256) + bytes[i])

bytes_to_int(bytes) == bytes_to_int_loop(bytes, 1, 0)

\* data[7:8]: the bytes at Python indices 7 <= k < 8 that exist
Slice78(data) == IF Len(data) >= 8 THEN <<data[8]>> ELSE <<>>

\* KeyError on an unmapped code, IndexError on data[0], [1], [4], [5], [6]
parseDataRaises(data) ==
    \/ Len(data) < 7
    \/ data[1] \notin DOMAIN MI_ACTION_MAP
    \/ data[2] \notin DOMAIN MI_MODE_MAP
    \/ data[7] \notin DOMAIN MI_KW_TYPE_MAP

parse_data(data) ==
    (MI_ACTION :> MI_ACTION_MAP[data[1]]) @@
    (MI_MODE :> MI_MODE_MAP[data[2]]) @@
    (MI_SET_TEMPERATURE :> data[5]) @@
    (MI_CURRENT_TEMPERATURE :> data[6]) @@
    (MI_KW_TYPE :> MI_KW_TYPE_MAP[data[7]]) @@
    (MI_KW_TIME :> bytes_to_int(Slice78(data)))

(***************************************************************************)
(* Notifications the device can push.  The link hands each one to          *)
(* handleNotification(cHandle, data).                                      *)
(***************************************************************************)
Challenge1 == <<18, 52, 86, 120>>
Ekey1 == generateEkey(TOKEN, Challenge1)
\* the confirmation a device holding Ekey1 sends, and a corrupted copy
GoodConf1 == cipher(Ekey1, CONFIRMATION)
BadConf1 == [GoodConf1 EXCEPT ![1] = Xor(GoodConf1[1], 1)]
ShortChallenge == <<7, 7>>
AuthData == {Challenge1, GoodConf1, BadConf1, ShortChallenge}

StatusHeating == <<1, 1, 0, 0, 65, 23, 0, 0, 5>>
StatusCooling == <<2, 3, 0, 0, 90, 60, 1>>
StatusBadAction == <<9, 1, 0, 0, 65, 23, 0, 0, 5>>
StatusShort == <<1, 1, 0>>
StatusData == {StatusHeating, StatusCooling, StatusBadAction, StatusShort}

HANDLE_OTHER == HANDLE_AUTH_INIT
Notifications ==
    ({HANDLE_AUTH} \X AuthData) \cup ({HANDLE_STATUS} \X StatusData)
        \cup {<<HANDLE_OTHER, <<0>> >>}
\* the notifications of a device that follows the protocol, and one bad status
DeviceNotifications ==
    {<<HANDLE_AUTH, Challenge1>>, <<HANDLE_AUTH, GoodConf1>>,
     <<HANDLE_STATUS, StatusHeating>>, <<HANDLE_STATUS, StatusBadAction>>}

\* the values of the key derivation on the notifications above
EkeyTable == [d \in {x \in AuthData : ~generateEkeyRaises(x)} |-> generateEkey(TOKEN, d)]
Ekeys == {EkeyTable[d] : d \in DOMAIN EkeyTable}
ConfirmationTable == [k \in Ekeys, d \in AuthData |-> checkConfirmation(k, d)]
ResponseTable == [k \in Ekeys |-> challengeResponse(k)]

\* cache_timeout values the handle is constructed with
TTLs == {150, 600}
Params == {MI_ACTION, MI_KW_TIME}

VARIABLES
    self,       \* the MiKettle object: _cache, _last_read, _ekey, _challenging,
                \* _confirming, _connected, _authed
    ttl,        \* self._cache_timeout in seconds
    lock,       \* self.lock: 0 when free, else the thread holding it
    now,        \* datetime.now()
    pc,         \* position of each thread in parameter_value / fill_cache / auth
    rc,         \* read_cached argument of a call that has not yet tested it
    result,     \* what a finished call returns or raises
    clr,        \* position of the clear_cache caller
    ev,         \* history: how the locked section that just ended went
    atUnlock,   \* history: a reading was cached when the thread released the lock
    sim,        \* history: the call began with read_cached on an expired cache,
                \*          no fill in flight; no clock advance and no locked
                \*          section of another kind of call since
    simFilled,  \* history: one of the calls marked sim has started a fill cycle
    hs,         \* history of the current auth() run (recorded in SpecAuth)
    failAt,     \* history: now() of the failed fill that last set _last_read
    op,         \* the public operation thread 1 is in (SpecOps)
    inp,        \* argument of a static method applied on its own
    ret         \* what the method returned for inp

vars == <<self, ttl, lock, now, pc, rc, result, clr,
          ev, atUnlock, sim, simFilled, hs, failAt, op, inp, ret>>

\* the variables that only the specifications of single methods change
aux == <<op, inp, ret>>

NoResult == [kind |-> "none"]
Returned(p, v) == [kind |-> "value", field |-> p, value |-> v]
Raised(e) == [kind |-> "raise", error |-> e]

NoRun == [chal |-> FALSE, ok |-> FALSE, timeout |-> FALSE, wrote |-> FALSE]

\* MiKettle.__init__, but for cache_timeout
InitObject ==
    /\ self = [cache |-> None, last_read |-> None, ekey |-> None,
               challenging |-> FALSE, confirming |-> FALSE,
               connected |-> FALSE, authed |-> FALSE]
    /\ lock = 0
    /\ now = 0
    /\ pc = [t \in Threads |-> "idle"]
    /\ rc = [t \in Threads |-> TRUE]
    /\ result = [t \in Threads |-> NoResult]
    /\ clr = "idle"
    /\ ev = "none"
    /\ atUnlock = [t \in Threads |-> FALSE]
    /\ sim = [t \in Threads |-> FALSE]
    /\ simFilled = FALSE
    /\ hs = NoRun
    /\ failAt = None

\* MiKettle.__init__; no call is in progress
Init ==
    /\ InitObject
    /\ ttl \in TTLs
    /\ op = "parameter_value"
    /\ inp = None
    /\ ret = None

\* def cache_available
cache_available(s) == s.cache # None

\* the refresh condition with the expiry test off by one (>= for >)
mustFillOffByOne(read_cached, s) ==
    \/ read_cached = FALSE
    \/ s.last_read = None
    \/ now - ttl >= s.last_read[1]

\* the refresh condition of parameter_value
mustFill(read_cached, s) ==
    \/ read_cached = FALSE
    \/ s.last_read = None
    \/ now - ttl > s.last_read[1]

\* an except clause that ages the cache by the whole ttl (no 300 s)
fillExceptNoBackoff(s) ==
    [s EXCEPT !.last_read = Some(now - ttl),
              !.connected = FALSE,
              !.authed = FALSE]

\* an except clause that keeps the session flags
fillExceptKeepSession(s) ==
    [s EXCEPT !.last_read = Some(now - ttl + BackoffSeconds)]

\* the except clause of fill_cache
fillExcept(s) ==
    [s EXCEPT !.last_read = Some(now - ttl + BackoffSeconds),
              !.connected = FALSE,
              !.authed = FALSE]

\* a handler whose status branch stores the reading without the timestamp
handleNotificationNoStamp(s, cHandle, data) ==
    IF cHandle = HANDLE_STATUS /\ data # NoPayload /\ ~parseDataRaises(data)
    THEN [s |-> [s EXCEPT !.cache = Some(parse_data(data))], raised |-> FALSE]
    ELSE IF cHandle = HANDLE_AUTH /\ s.challenging /\ ~generateEkeyRaises(data)
    THEN [s |-> [s EXCEPT !.challenging = FALSE, !.ekey = EkeyTable[data]],
          raised |-> FALSE]
    ELSE [s |-> s, raised |-> FALSE]

\* a handler that takes any confirmation without checkConfirmation
handleNotificationNoCheck(s, cHandle, data) ==
    IF cHandle = HANDLE_AUTH /\ ~s.challenging /\ s.confirming
    THEN [s |-> [s EXCEPT !.confirming = FALSE], raised |-> FALSE]
    ELSE handleNotificationNoStamp(s, cHandle, data)

\* def handleNotification: the object after the handler, and whether it raised
handleNotification(s, cHandle, data) ==
    IF cHandle = HANDLE_AUTH THEN
        IF s.challenging THEN
            IF generateEkeyRaises(data)
            THEN [s |-> [s EXCEPT !.challenging = FALSE], raised |-> TRUE]
            ELSE [s |-> [s EXCEPT !.challenging = FALSE, !.ekey = EkeyTable[data]],
                  raised |-> FALSE]
        ELSE IF s.confirming THEN
            \* cipher(None, ...) is a TypeError
            [s |-> [s EXCEPT !.confirming = FALSE],
             raised |-> IF s.ekey = None THEN TRUE
                        ELSE ~ConfirmationTable[s.ekey, data]]
        ELSE \* checkPairing is not a name in scope: NameError
            [s |-> s, raised |-> TRUE]
    ELSE IF cHandle = HANDLE_STATUS THEN
        IF data = NoPayload THEN [s |-> s, raised |-> FALSE]
        ELSE IF parseDataRaises(data) THEN [s |-> s, raised |-> TRUE]
        ELSE [s |-> [s EXCEPT !.cache = Some(parse_data(data)), !.last_read = Some(now)],
              raised |-> FALSE]
    ELSE [s |-> s, raised |-> FALSE]

(***************************************************************************)
(* Positions of a thread.  "lock" waits for self.lock; "check" holds it.   *)
(* At a position of LinkPcs the thread is inside a call of the link:       *)
(*   authDesc   getServiceByUUID, getDescriptors, descriptor write (186-189)*)
(*   authInit   writeCharacteristic(_HANDLE_AUTH_INIT, _SESSION_START) (192)*)
(*   wait1      waitForNotifications(10.0) (193)                           *)
(*   authResp   writeCharacteristic(_HANDLE_AUTH, challengeResponse) (196) *)
(*   wait2      waitForNotifications(10.0) (199)                           *)
(*   version    readCharacteristic(_HANDLE_VERSION) (201)                  *)
(*   subscribe  subscribeToData (205-207)                                  *)
(*   wait3      waitForNotifications(self.ble_timeout) (146)               *)
(* The link dispatches notifications to handleNotification while it waits  *)
(* for the response of any call; waitForNotifications returns True after   *)
(* one notification and False when the timeout elapses.                    *)
(***************************************************************************)
WaitPcs == {"wait1", "wait2", "wait3"}
AuthPcs == {"authDesc", "authInit", "wait1", "authResp", "wait2", "version"}
LinkPcs == AuthPcs \cup {"subscribe", "wait3"}
FillPcs == {"connect", "auth"} \cup LinkPcs

\* a reading is cached and it is older than ttl
Expired ==
    /\ self.cache # None
    /\ self.last_read # None
    /\ now - self.last_read[1] > ttl

\* the code of auth() and fill_cache that follows the link call at position p
afterCall(s, p) ==
    CASE p = "authDesc" ->
            [s |-> [s EXCEPT !.challenging = TRUE], pc |-> "authInit", raised |-> FALSE]
      [] p = "authInit" -> [s |-> s, pc |-> "wait1", raised |-> FALSE]
      [] p = "wait1" ->
            \* challengeResponse(None): len(None) is a TypeError
            [s |-> [s EXCEPT !.confirming = TRUE], pc |-> "authResp",
             raised |-> (s.ekey = None)]
      [] p = "authResp" -> [s |-> s, pc |-> "wait2", raised |-> FALSE]
      [] p = "wait2" -> [s |-> s, pc |-> "version", raised |-> FALSE]
      [] p = "version" ->
            [s |-> [s EXCEPT !.authed = TRUE], pc |-> "subscribe", raised |-> FALSE]
      [] p = "subscribe" -> [s |-> s, pc |-> "wait3", raised |-> FALSE]
      [] p = "wait3" -> [s |-> s, pc |-> "unlock", raised |-> FALSE]

\* one step of thread t inside fill_cache: the object becomes s2 and the
\* thread moves to nextpc, or an exception reaches the except clause
FillStep(t, s2, nextpc, raisedFlag, out) ==
    /\ self' = IF raisedFlag THEN fillExcept(s2) ELSE s2
    /\ pc' = [pc EXCEPT ![t] = IF raisedFlag THEN "unlock" ELSE nextpc]
    /\ ev' = IF raisedFlag THEN "raised"
             ELSE IF nextpc = "unlock" THEN out ELSE ev
    /\ failAt' = IF raisedFlag THEN Some(now)
                 ELSE IF s2.last_read # self.last_read THEN None ELSE failAt
    /\ UNCHANGED <<ttl, lock, now, rc, result, clr, atUnlock, sim, simFilled>>

\* a thread calls parameter_value(parameter, read_cached)
Call(t, read_cached) ==
    /\ pc[t] = "idle"
    /\ clr = "idle"
    /\ pc' = [pc EXCEPT ![t] = "lock"]
    /\ rc' = [rc EXCEPT ![t] = read_cached]
    /\ sim' = [sim EXCEPT ![t] =
                  /\ read_cached
                  /\ Expired
                  /\ lock = 0
                  /\ \A u \in Threads \ {t} : pc[u] # "lock" \/ sim[u]]
    /\ UNCHANGED <<self, ttl, lock, now, result, clr, ev, atUnlock, simFilled, failAt>>

\* entering the locked section without waiting for the lock
AcquireNoWait(t) ==
    /\ pc[t] = "lock"
    /\ lock' = t
    /\ pc' = [pc EXCEPT ![t] = "check"]
    /\ sim' = IF sim[t] THEN sim ELSE [u \in Threads |-> FALSE]
    /\ simFilled' = (sim[t] /\ simFilled)
    /\ UNCHANGED <<self, ttl, now, rc, result, clr, ev, atUnlock, failAt>>

\* with self.lock: entry
Acquire(t) ==
    /\ pc[t] = "lock"
    /\ lock = 0
    /\ lock' = t
    /\ pc' = [pc EXCEPT ![t] = "check"]
    /\ sim' = IF sim[t] THEN sim ELSE [u \in Threads |-> FALSE]
    /\ simFilled' = (sim[t] /\ simFilled)
    /\ UNCHANGED <<self, ttl, now, rc, result, clr, ev, atUnlock, failAt>>

\* the if of parameter_value, lines 121-128
Check(t) ==
    /\ pc[t] = "check"
    /\ IF mustFill(rc[t], self)
       THEN /\ pc' = [pc EXCEPT ![t] = "connect"]
            /\ UNCHANGED ev
       ELSE /\ pc' = [pc EXCEPT ![t] = "unlock"]
            /\ ev' = "fresh"
    /\ rc' = [rc EXCEPT ![t] = TRUE]
    /\ sim' = [sim EXCEPT ![t] = FALSE]
    /\ simFilled' = IF \E u \in Threads \ {t} : sim[u]
                    THEN simFilled \/ (sim[t] /\ mustFill(rc[t], self))
                    ELSE FALSE
    /\ UNCHANGED <<self, ttl, lock, now, result, clr, atUnlock, failAt>>

\* def connect, called by fill_cache; Peripheral(mac) can raise
Connect(t) ==
    /\ pc[t] = "connect"
    /\ IF self.connected
       THEN /\ pc' = [pc EXCEPT ![t] = "auth"]
            /\ UNCHANGED <<self, ttl, lock, now, rc, result, clr,
                           ev, atUnlock, sim, simFilled, failAt>>
       ELSE \E ok \in BOOLEAN :
                FillStep(t, [self EXCEPT !.connected = ok], "auth", ~ok, "none")

\* an auth() without the guard: the handshake is run again
AuthAlways(t) ==
    /\ pc[t] = "auth"
    /\ pc' = [pc EXCEPT ![t] = "authDesc"]
    /\ UNCHANGED <<self, ttl, lock, now, rc, result, clr,
                   ev, atUnlock, sim, simFilled, failAt>>

\* def auth, line 185
Auth(t) ==
    /\ pc[t] = "auth"
    /\ pc' = [pc EXCEPT ![t] = IF self.authed THEN "subscribe" ELSE "authDesc"]
    /\ UNCHANGED <<self, ttl, lock, now, rc, result, clr,
                   ev, atUnlock, sim, simFilled, failAt>>

\* the link dispatches notification n while thread t is inside a link call
Deliver(t, n) ==
    /\ pc[t] \in LinkPcs
    /\ LET h == handleNotification(self, n[1], n[2])
           r == IF h.raised THEN [s |-> h.s, pc |-> pc[t], raised |-> TRUE]
                ELSE IF pc[t] \in WaitPcs THEN afterCall(h.s, pc[t])
                ELSE [s |-> h.s, pc |-> pc[t], raised |-> FALSE]
       IN  FillStep(t, r.s, r.pc, r.raised, "notified")

\* the link call of thread t returns; for a wait this is the timeout
Complete(t) ==
    /\ pc[t] \in LinkPcs
    /\ LET r == afterCall(self, pc[t])
       IN  FillStep(t, r.s, r.pc, r.raised, "timeout")

\* the link call of thread t raises (BTLEException)
LinkRaise(t) ==
    /\ pc[t] \in LinkPcs
    /\ FillStep(t, self, pc[t], TRUE, "raised")

\* leaving the locked section without releasing the lock
ReleaseKeepLock(t) ==
    /\ pc[t] = "unlock"
    /\ lock' = lock
    /\ pc' = [pc EXCEPT ![t] = "avail"]
    /\ ev' = "none"
    /\ atUnlock' = [atUnlock EXCEPT ![t] = cache_available(self)]
    /\ UNCHANGED <<self, ttl, now, rc, result, clr, sim, simFilled, failAt>>

\* with self.lock: exit
Release(t) ==
    /\ pc[t] = "unlock"
    /\ lock' = 0
    /\ pc' = [pc EXCEPT ![t] = "avail"]
    /\ ev' = "none"
    /\ atUnlock' = [atUnlock EXCEPT ![t] = cache_available(self)]
    /\ UNCHANGED <<self, ttl, now, rc, result, clr, sim, simFilled, failAt>>

\* deciding between value and no-data error by the cache as it was when the
\* lock was released
AvailAtUnlock(t) ==
    /\ pc[t] = "avail"
    /\ IF atUnlock[t]
       THEN /\ pc' = [pc EXCEPT ![t] = "read"]
            /\ UNCHANGED result
       ELSE /\ pc' = [pc EXCEPT ![t] = "done"]
            /\ result' = [result EXCEPT ![t] = Raised("Could not read data")]
    /\ UNCHANGED <<self, ttl, lock, now, rc, clr, ev, atUnlock, sim, simFilled, failAt>>

\* if self.cache_available(), lines 130, 132-133
Avail(t) ==
    /\ pc[t] = "avail"
    /\ IF cache_available(self)
       THEN /\ pc' = [pc EXCEPT ![t] = "read"]
            /\ UNCHANGED result
       ELSE /\ pc' = [pc EXCEPT ![t] = "done"]
            /\ result' = [result EXCEPT ![t] = Raised("Could not read data")]
    /\ UNCHANGED <<self, ttl, lock, now, rc, clr, ev, atUnlock, sim, simFilled, failAt>>

\* return self._cache[parameter], line 131, for the parameter of the call;
\* None[parameter] is a TypeError
Read(t, parameter) ==
    /\ pc[t] = "read"
    /\ pc' = [pc EXCEPT ![t] = "done"]
    /\ result' = [result EXCEPT ![t] =
                     IF self.cache = None THEN Raised("TypeError")
                     ELSE Returned(parameter, self.cache[1][parameter])]
    /\ UNCHANGED <<self, ttl, lock, now, rc, clr, ev, atUnlock, sim, simFilled, failAt>>

\* the caller takes the result; the thread can call again
Return(t) ==
    /\ pc[t] = "done"
    /\ pc' = [pc EXCEPT ![t] = "idle"]
    /\ result' = [result EXCEPT ![t] = NoResult]
    /\ atUnlock' = [atUnlock EXCEPT ![t] = FALSE]
    /\ UNCHANGED <<self, ttl, lock, now, rc, clr, ev, sim, simFilled, failAt>>

\* def clear_cache, line 158
ClearCache1 ==
    /\ clr = "idle"
    /\ clr' = "mid"
    /\ self' = [self EXCEPT !.cache = None]
    /\ UNCHANGED <<ttl, lock, now, pc, rc, result, ev, atUnlock, sim, simFilled, failAt>>

\* def clear_cache, line 159
ClearCache2 ==
    /\ clr = "mid"
    /\ clr' = "idle"
    /\ self' = [self EXCEPT !.last_read = None]
    /\ failAt' = None
    /\ UNCHANGED <<ttl, lock, now, pc, rc, result, ev, atUnlock, sim, simFilled>>

\* time passes
Tick ==
    /\ now + TickLen <= MaxTime
    /\ now' = now + TickLen
    /\ sim' = [t \in Threads |-> FALSE]
    /\ simFilled' = FALSE
    /\ UNCHANGED <<self, ttl, lock, pc, rc, result, clr, ev, atUnlock, failAt>>

\* the device sends a status notification only once subscribeToData has been
\* called on the connection
Subscribed(t, n) == n[1] = HANDLE_STATUS => pc[t] \in {"subscribe", "wait3"}

\* no parameter_value call is in progress
Quiet == \A t \in Threads : pc[t] = "idle"

ThreadStep(t) ==
    \/ \E r \in BOOLEAN : Call(t, r)
    \/ Acquire(t)
    \/ Check(t)
    \/ Connect(t)
    \/ Auth(t)
    \/ \E n \in DeviceNotifications : Subscribed(t, n) /\ Deliver(t, n)
    \/ Complete(t)
    \/ LinkRaise(t)
    \/ Release(t)
    \/ Avail(t)
    \/ \E p \in Params : Read(t, p)
    \/ Return(t)

(***************************************************************************)
(* Spec: any number of threads call parameter_value concurrently while the *)
(* clock advances; clear_cache is called between calls; the device sends   *)
(* DeviceNotifications.                                                    *)
(***************************************************************************)
Next ==
    \/ (\E t \in Threads : ThreadStep(t)) /\ UNCHANGED <<hs, aux>>
    \/ Quiet /\ ClearCache1 /\ UNCHANGED <<hs, aux>>
    \/ ClearCache2 /\ UNCHANGED <<hs, aux>>
    \/ Tick /\ UNCHANGED <<hs, aux>>

Spec == Init /\ [][Next]_vars

(***************************************************************************)
(* SpecAuth: one caller, and a device that can push any of Notifications.  *)
(* The history of each auth() run is recorded in hs:                       *)
(*   chal     a notification on the auth handle was taken as the challenge *)
(*   ok       after that, a notification passed checkConfirmation          *)
(*   timeout  waitForNotifications returned False at line 193 or 199       *)
(*   wrote    the challenge response was written after such a timeout      *)
(***************************************************************************)
hsDeliver(t, n) ==
    LET h == handleNotification(self, n[1], n[2])
        onAuth == pc[t] \in AuthPcs /\ n[1] = HANDLE_AUTH /\ ~h.raised
        tookChallenge == onAuth /\ self.challenging
        passed == onAuth /\ ~self.challenging /\ self.confirming
    IN  [hs EXCEPT !.chal = @ \/ tookChallenge,
                   !.ok = @ \/ (passed /\ hs.chal)]

hsComplete(t) ==
    [hs EXCEPT !.timeout = @ \/ (pc[t] \in {"wait1", "wait2"}),
               !.wrote = @ \/ (pc[t] = "wait1" /\ ~afterCall(self, pc[t]).raised)]

NextAuth ==
    \/ (\E r \in BOOLEAN : Call(1, r)) /\ UNCHANGED <<hs, aux>>
    \/ Acquire(1) /\ UNCHANGED <<hs, aux>>
    \/ Check(1) /\ UNCHANGED <<hs, aux>>
    \/ Connect(1) /\ UNCHANGED <<hs, aux>>
    \/ Auth(1) /\ hs' = (IF self.authed THEN hs ELSE NoRun) /\ UNCHANGED aux
    \/ \E n \in Notifications : Deliver(1, n) /\ hs' = hsDeliver(1, n) /\ UNCHANGED aux
    \/ Complete(1) /\ hs' = hsComplete(1) /\ UNCHANGED aux
    \/ LinkRaise(1) /\ UNCHANGED <<hs, aux>>
    \/ Release(1) /\ UNCHANGED <<hs, aux>>
    \/ Avail(1) /\ UNCHANGED <<hs, aux>>
    \/ (\E p \in Params : Read(1, p)) /\ UNCHANGED <<hs, aux>>
    \/ Return(1) /\ UNCHANGED <<hs, aux>>

SpecAuth == Init /\ [][NextAuth]_vars

(***************************************************************************)
(* Properties.                                                             *)
(***************************************************************************)

\* C1: the session is authenticated only if, in the same run of auth(), a
\* challenge notification was received and a later confirmation notification
\* passed checkConfirmation with the ekey derived from that challenge.
C1_AuthedOnlyAfterConfirmation == self.authed => (hs.chal /\ hs.ok)

\* C2: when a wait for an auth notification times out, auth() writes nothing
\* further to the device and the session does not become authenticated.
C2_TimeoutEndsAuth == hs.timeout => (~self.authed /\ ~hs.wrote)

\* a thread leaves the test of the refresh condition
Decides(t) == pc[t] = "check" /\ pc'[t] # "check"

\* C3: parameter_value starts a fill cycle iff read_cached is false, or
\* lastRead is absent, or now - lastRead > ttl; otherwise it leaves the locked
\* section without any link operation and without touching the object.
C3_FillIffStale ==
    [][\A t \in Threads : Decides(t) =>
          LET stale == \/ rc[t] = FALSE
                       \/ self.last_read = None
                       \/ now - self.last_read[1] > ttl
          IN  /\ (pc'[t] = "connect") <=> stale
              /\ ~stale => (pc'[t] = "unlock" /\ self' = self)]_vars

\* a call is served from a reading whose age is exactly ttl
C3_Witness ==
    \E t \in Threads :
        /\ pc[t] = "unlock"
        /\ ev = "fresh"
        /\ self.cache # None
        /\ self.last_read # None
        /\ now - self.last_read[1] = ttl

LockedPcs == {"check", "unlock"} \cup FillPcs

\* C4: at most one thread is inside the locked section, hence inside a fill
\* cycle, at any time, and that thread holds the lock.
C4_OneFillInFlight ==
    \A t \in Threads :
        pc[t] \in LockedPcs =>
            /\ lock = t
            /\ \A u \in Threads \ {t} : pc[u] \notin LockedPcs

\* a second caller waits for the lock while a fill waits for the status
C4_Witness ==
    \E t, u \in Threads : t # u /\ pc[t] = "wait3" /\ pc[u] = "lock"

\* C5: of the simultaneous read_cached calls that began on an expired cache,
\* the first to take the lock starts a fill cycle and no other one does.
C5_ExactlyOneFill ==
    [][\A t \in Threads : (Decides(t) /\ sim[t]) =>
          ((pc'[t] = "connect") <=> ~simFilled)]_vars

\* a fill cycle ends in the except clause
Fails == ev = "none" /\ ev' = "raised"

\* C6: a fill cycle that raises sets lastRead to now - ttl + 300 s, and as
\* long as lastRead keeps that value a read_cached call starts a fill iff
\* more than 300 s have passed since the failure.
C6_Backoff ==
    [][/\ Fails => self'.last_read = Some(now - ttl + 300)
       /\ \A t \in Threads : (Decides(t) /\ rc[t] /\ failAt # None) =>
              /\ self.last_read = Some(failAt[1] - ttl + 300)
              /\ (pc'[t] = "connect") <=> (now - failAt[1] > 300)]_vars

\* a read_cached call tests the cache more than 300 s after a failed fill
C6_Witness ==
    \E t \in Threads :
        pc[t] = "check" /\ rc[t] /\ failAt # None /\ now - failAt[1] > 300

\* C7: an exception raised in a fill cycle ends it in the except clause: the
\* call goes on to release the lock with no error of its own, and connected
\* and authed are false, so the next fill connects and authenticates anew.
C7_ExceptionCaught ==
    [][\A t \in Threads :
          /\ (Fails /\ pc[t] \in FillPcs) =>
                /\ pc'[t] = "unlock"
                /\ result'[t].kind = "none"
                /\ ~self'.connected
                /\ ~self'.authed
          /\ (pc[t] = "unlock" /\ ev = "raised") =>
                (~self.connected /\ ~self.authed)]_vars

\* a fill cycle that had derived a session key ended in the except clause
C7_Witness ==
    \E t \in Threads :
        pc[t] = "unlock" /\ ev = "raised" /\ self.ekey # None /\ self.cache # None

\* C8: a status wait that times out resets connected and authed and sets
\* lastRead to now - ttl + 300 s.
C8_TimeoutIsFailure ==
    [][(ev = "none" /\ ev' = "timeout") =>
          /\ ~self'.connected
          /\ ~self'.authed
          /\ self'.last_read = Some(now - ttl + 300)]_vars

C10_ResultByCacheAtUnlock ==
    [][\A t \in Threads :
          /\ (pc[t] = "avail" /\ pc'[t] # "avail") =>
                IF atUnlock[t] THEN pc'[t] = "read"
                ELSE pc'[t] = "done" /\ result'[t].kind = "raise"
          /\ (pc[t] = "read" /\ pc'[t] # "read") =>
                /\ result'[t].kind = "value"
                /\ result'[t].value = self.cache[1][result'[t].field]]_vars

\* C10 as amended: the call returns the requested field if a reading is
\* cached when cache_available() is evaluated after the lock is released, and
\* raises the no-data error iff none is; a reading cached when the lock was
\* released is still there.
C10_ResultByCacheAtCheck ==
    [][\A t \in Threads :
          /\ (pc[t] = "avail" /\ pc'[t] # "avail") =>
                /\ IF self.cache # None THEN pc'[t] = "read"
                   ELSE pc'[t] = "done" /\ result'[t].kind = "raise"
                /\ atUnlock[t] => self.cache # None
          /\ (pc[t] = "read" /\ pc'[t] # "read") =>
                /\ result'[t].kind = "value"
                /\ result'[t].value = self.cache[1][result'[t].field]]_vars

\* a call that released the lock on an empty cache returns a value
C10_Witness ==
    \E t \in Threads :
        pc[t] = "done" /\ ~atUnlock[t] /\ result[t].kind = "value"

\* the handshake of the current auth() run has taken Challenge1 as its
\* challenge, has reached the write of the challenge response (line 196) and
\* waits for the confirmation
AwaitsConfirmation ==
    /\ pc[1] \in {"authResp", "wait2", "version"}
    /\ hs.chal /\ ~self.challenging /\ self.confirming /\ self.ekey = Ekey1

\* C11: in a handshake that has taken a challenge, the valid confirmation
\* (the one that matches the ekey derived from that challenge) raises nothing and lets the wait of line 199 return to the version read,
\* after which authed is true; a corrupted confirmation raises, and the
\* except clause of the fill leaves authed and connected false.
C11_HandshakeEndToEnd ==
    [][/\ (AwaitsConfirmation /\ Deliver(1, <<HANDLE_AUTH, GoodConf1>>)) =>
              /\ ev' # "raised"
              /\ ~self'.confirming
              /\ pc[1] = "wait2" => pc'[1] = "version"
       /\ (pc[1] = "version" /\ Complete(1)) =>
              (self'.authed /\ pc'[1] = "subscribe")
       /\ (AwaitsConfirmation /\ Deliver(1, <<HANDLE_AUTH, BadConf1>>)) =>
              /\ ev' = "raised"
              /\ pc'[1] = "unlock"
              /\ ~self'.authed
              /\ ~self'.connected]_vars

\* an auth() run that took the challenge and a passing confirmation ended
\* with authed true
C11_Witness ==
    /\ hs.chal /\ hs.ok /\ ~hs.timeout
    /\ self.ekey = Ekey1 /\ self.authed /\ pc[1] = "subscribe"

\* C12: auth() on an authenticated session goes straight on to
\* subscribeToData: no link call of auth() is entered and the object is
\* unchanged.
C12_AuthIsNoOpWhenAuthed ==
    [][\A t \in Threads :
          (pc[t] = "auth" /\ self.authed /\ pc'[t] # "auth") =>
              /\ pc'[t] = "subscribe"
              /\ self' = self]_vars

\* a fill on a session that is already authenticated reaches auth()
C12_Witness ==
    \E t \in Threads : pc[t] = "auth" /\ self.authed /\ self.connected

(***************************************************************************)
(* SpecDecode: _parse_data applied to one status payload.                  *)
(***************************************************************************)
MaxPayloadLen == 9   \* longest status payload

\* values tried for the byte at Python index i - 1
PayloadByte(i) ==
    CASE i = 1 -> {0, 1, 9}         \* action code; 9 is not in MI_ACTION_MAP
      [] i = 2 -> {1, 255, 7}       \* mode code; 7 is not in MI_MODE_MAP
      [] i = 5 -> {65}
      [] i = 6 -> {23, 100}
      [] i = 7 -> {0, 1, 2}         \* keep-warm type; 2 is not in the map
      [] i = 8 -> {0, 1}
      [] i = 9 -> {0, 5}
      [] OTHER -> {0}

RECURSIVE PayloadsOfLen(_)
PayloadsOfLen(n) ==
    IF n = 0 THEN {<<>>}
    ELSE {Append(p, b) : p \in PayloadsOfLen(n - 1), b \in PayloadByte(n)}

Payloads == UNION {PayloadsOfLen(n) : n \in 0..MaxPayloadLen}

\* the outcome of a call: it raised, or it returned value
Outcome(raised, value) == [raised |-> raised, value |-> value]

InitDecode ==
    /\ InitObject
    /\ ttl = 600
    /\ op = "_parse_data"
    /\ inp \in Payloads
    /\ ret = None

\* self._parse_data(data)
Decode ==
    /\ op = "_parse_data"
    /\ ret = None
    /\ ret' = Some(IF parseDataRaises(inp) THEN Outcome(TRUE, None)
                   ELSE Outcome(FALSE, parse_data(inp)))
    /\ UNCHANGED <<self, ttl, lock, now, pc, rc, result, clr,
                   ev, atUnlock, sim, simFilled, hs, failAt, op, inp>>

NextDecode == Decode

SpecDecode == InitDecode /\ [][NextDecode]_vars

\* every code of the payload is mapped
MappedCodes(data) ==
    /\ data[1] \in DOMAIN MI_ACTION_MAP
    /\ data[2] \in DOMAIN MI_MODE_MAP
    /\ data[7] \in DOMAIN MI_KW_TYPE_MAP

\* C13: a payload of at least 9 bytes with mapped codes decodes to keep-warm
\* time byte7 * 256 + byte8 and to the temperatures of bytes 4 and 5.
C13_KeepWarmTimeBigEndian ==
    (ret # None /\ Len(inp) >= 9 /\ MappedCodes(inp)) =>
        /\ ~ret[1].raised
        /\ ret[1].value[MI_SET_TEMPERATURE] = inp[5]
        /\ ret[1].value[MI_CURRENT_TEMPERATURE] = inp[6]
        /\ ret[1].value[MI_KW_TIME] = (inp[8] * 256) + inp[9]

\* C14: a payload whose byte 0 is an unmapped action code, and a payload
\* shorter than 8 bytes, raises instead of returning a reading.
C14_MalformedRaises ==
    (ret # None /\ (Len(inp) < 8 \/ inp[1] \notin DOMAIN MI_ACTION_MAP)) =>
        ret[1].raised

(***************************************************************************)
(* SpecCipher: cipher applied to a text, and again to its own output with  *)
(* the same key.                                                           *)
(***************************************************************************)
MaxKeyLen == 2       \* longest key drawn from KeyBytes
MaxTextLen == 3      \* longest text drawn from TextBytes

KeyBytes == {1, 128, 255}
TextBytes == {0, 90, 255}

RECURSIVE SeqsOfLen(_, _)
SeqsOfLen(S, n) ==
    IF n = 0 THEN {<<>>}
    ELSE {Append(q, b) : q \in SeqsOfLen(S, n - 1), b \in S}

\* non-empty keys, and the token of the module
Keys == UNION {SeqsOfLen(KeyBytes, n) : n \in 1..MaxKeyLen} \cup {TOKEN}
Texts == UNION {SeqsOfLen(TextBytes, n) : n \in 0..MaxTextLen}
            \cup {CONFIRMATION, SESSION_END}

InitCipher ==
    /\ InitObject
    /\ ttl = 600
    /\ op = "cipher"
    /\ inp \in [key : Keys, text : Texts]
    /\ ret = None

\* MiKettle.cipher(key, text)
Encrypt ==
    /\ op = "cipher"
    /\ Len(ret) = 0
    /\ ret' = <<cipher(inp.key, inp.text)>>
    /\ UNCHANGED <<self, ttl, lock, now, pc, rc, result, clr,
                   ev, atUnlock, sim, simFilled, hs, failAt, op, inp>>

\* MiKettle.cipher(key, output of the first call)
Decrypt ==
    /\ op = "cipher"
    /\ Len(ret) = 1
    /\ ret' = Append(ret, cipher(inp.key, ret[1]))
    /\ UNCHANGED <<self, ttl, lock, now, pc, rc, result, clr,
                   ev, atUnlock, sim, simFilled, hs, failAt, op, inp>>

NextCipher ==
    \/ Encrypt
    \/ Decrypt

SpecCipher == InitCipher /\ [][NextCipher]_vars

\* C15: for a non-empty key, the output of cipher is as long as its input,
\* and cipher with the same key applied to the output gives the input back.
C15_CipherRoundTrip ==
    /\ Len(ret) >= 1 => Len(ret[1]) = Len(inp.text)
    /\ Len(ret) = 2 => ret[2] = inp.text

\* a text of the greatest length was changed by cipher and then restored
C15_Witness ==
    /\ Len(ret) = 2
    /\ Len(inp.text) = MaxTextLen
    /\ ret[1] # inp.text
    /\ ret[2] = inp.text

\* notification n is on the auth handle while the object awaits neither a
\* challenge nor a confirmation, or on a handle of neither branch
Stray(n) ==
    \/ n[1] = HANDLE_AUTH /\ ~self.challenging /\ ~self.confirming
    \/ n[1] \notin {HANDLE_AUTH, HANDLE_STATUS}

\* C16: a stray notification either ends the fill in the except clause, or
\* leaves the object unchanged and a wait of the handshake (line 193 or 199)
\* still waiting.
C16_StrayDoesNotAdvance ==
    [][\A n \in Notifications :
          (Stray(n) /\ Deliver(1, n)) =>
              \/ ev' = "raised"
              \/ /\ self' = self
                 /\ pc[1] \in {"wait1", "wait2"} => pc'[1] = pc[1]]_vars

\* C17: when a fill has ended in the except clause (the session is reset),
\* and when a handshake starts, no ekey is kept.
C17_EkeyOnlyInSession ==
    \A t \in Threads :
        (pc[t] = "authDesc" \/ (pc[t] = "unlock" /\ ev = "raised")) =>
            self.ekey = None

(***************************************************************************)
(* SpecOps: one caller of the three public operations that use the link.   *)
(* name() and firmware_version() run connect(), auth() and one             *)
(* readCharacteristic with no lock and no try; an exception raised in them *)
(* reaches the caller.  Position "readChar" is the read of line 94 / 105.  *)
(***************************************************************************)
HANDLE_READ_FIRMWARE_VERSION == 26
HANDLE_READ_NAME == 20

PublicOps == {"name", "firmware_version"}
OpPcs == AuthPcs \cup {"readChar"}

ReadHandle(o) ==
    IF o = "name" THEN HANDLE_READ_NAME ELSE HANDLE_READ_FIRMWARE_VERSION

\* the code of auth() that follows the link call at position p, and the
\* return of auth() to name() / firmware_version()
opAfterCall(s, p) ==
    LET r == afterCall(s, p)
    IN  [r EXCEPT !.pc = IF @ = "subscribe" THEN "readChar" ELSE @]

\* one step inside name() / firmware_version(): the object becomes s2 and
\* the caller moves to nextpc, or the exception err leaves the operation
OpStep(s2, nextpc, raisedFlag, err) ==
    /\ self' = s2
    /\ pc' = [pc EXCEPT ![1] = IF raisedFlag THEN "done" ELSE nextpc]
    /\ result' = [result EXCEPT ![1] = IF raisedFlag THEN Raised(err) ELSE @]
    /\ failAt' = IF s2.last_read # self.last_read THEN None ELSE failAt
    /\ UNCHANGED <<ttl, lock, now, rc, clr, ev, atUnlock, sim, simFilled,
                   hs, op, inp, ret>>

\* the caller calls name() or firmware_version()
OpCall(o) ==
    /\ pc[1] = "idle"
    /\ clr = "idle"
    /\ op' = o
    /\ pc' = [pc EXCEPT ![1] = "connect"]
    /\ UNCHANGED <<self, ttl, lock, now, rc, result, clr, ev, atUnlock,
                   sim, simFilled, hs, failAt, inp, ret>>

\* self.connect(), line 92 / 103
OpConnect ==
    /\ op \in PublicOps
    /\ pc[1] = "connect"
    /\ IF self.connected
       THEN OpStep(self, "auth", FALSE, "")
       ELSE \E ok \in BOOLEAN :
                OpStep([self EXCEPT !.connected = ok], "auth", ~ok, "BTLEException")

\* self.auth(), line 93 / 104
OpAuth ==
    /\ op \in PublicOps
    /\ pc[1] = "auth"
    /\ OpStep(self, IF self.authed THEN "readChar" ELSE "authDesc", FALSE, "")

\* the link dispatches notification n during a link call of the operation
OpDeliver(n) ==
    /\ op \in PublicOps
    /\ pc[1] \in OpPcs
    /\ LET h == handleNotification(self, n[1], n[2])
       IN  IF h.raised THEN OpStep(h.s, pc[1], TRUE, "Exception")
           ELSE IF pc[1] \in WaitPcs
           THEN LET r == opAfterCall(h.s, pc[1])
                IN  OpStep(r.s, r.pc, r.raised, "TypeError")
           ELSE OpStep(h.s, pc[1], FALSE, "")

\* the link call returns; the characteristic read returns bytes or nothing
OpComplete ==
    /\ op \in PublicOps
    /\ pc[1] \in OpPcs
    /\ IF pc[1] = "readChar"
       THEN /\ pc' = [pc EXCEPT ![1] = "done"]
            /\ \E empty \in BOOLEAN :
                   result' = [result EXCEPT ![1] =
                                 IF empty THEN Raised("Could not read")
                                 ELSE Returned(ReadHandle(op), "text")]
            /\ UNCHANGED <<self, ttl, lock, now, rc, clr, ev, atUnlock, sim,
                           simFilled, hs, failAt, op, inp, ret>>
       ELSE LET r == opAfterCall(self, pc[1])
            IN  OpStep(r.s, r.pc, r.raised, "TypeError")

\* the link call raises (BTLEException)
OpLinkRaise ==
    /\ op \in PublicOps
    /\ pc[1] \in OpPcs
    /\ OpStep(self, pc[1], TRUE, "BTLEException")

NextOps ==
    \/ (\E r \in BOOLEAN : Call(1, r)) /\ op' = "parameter_value"
           /\ UNCHANGED <<hs, inp, ret>>
    \/ op = "parameter_value" /\ ThreadStep(1) /\ UNCHANGED <<hs, aux>>
    \/ \E o \in PublicOps : OpCall(o)
    \/ OpConnect
    \/ OpAuth
    \/ \E n \in DeviceNotifications : OpDeliver(n)
    \/ OpComplete
    \/ OpLinkRaise
    \/ Return(1) /\ UNCHANGED <<hs, aux>>

SpecOps == Init /\ [][NextOps]_vars

\* C18: an operation in which a link call raised ends with authed and
\* connected both false: a fill that reaches the except clause, and a
\* name() or firmware_version() that ends with the link's exception.
C18_ResetOnTransportError ==
    /\ (pc[1] = "unlock" /\ ev = "raised") =>
           (~self.authed /\ ~self.connected)
    /\ (pc[1] = "done" /\ result[1].kind = "raise"
           /\ result[1].error = "BTLEException") =>
           (~self.authed /\ ~self.connected)

(***************************************************************************)
(* SpecRace: one caller of parameter_value, and another thread that calls  *)
(* clear_cache at any moment, also between two steps of the call.          *)
(***************************************************************************)
NextRace ==
    \/ ThreadStep(1) /\ UNCHANGED <<hs, aux>>
    \/ ClearCache1 /\ UNCHANGED <<hs, aux>>
    \/ ClearCache2 /\ UNCHANGED <<hs, aux>>
    \/ Tick /\ UNCHANGED <<hs, aux>>

SpecRace == Init /\ [][NextRace]_vars

\* C19: with clear_cache running concurrently, a parameter_value call that
\* raises raises the no-data error, and a call that returns returns a field
\* of a reading.
C19_ValueOrNoData ==
    \A t \in Threads :
        /\ result[t].kind = "raise" => result[t].error = "Could not read data"
        /\ result[t].kind = "value" => result[t].field \in Params

(***************************************************************************)
(* SpecLive: concurrent callers of parameter_value under fair scheduling, *)
(* on a handle built with the default cache_timeout, with the clock        *)
(* standing still.  A thread that can take its next step inside            *)
(* parameter_value takes it; every link call returns (a wait returns at    *)
(* its timeout); a thread that waits for self.lock gets it if it is free   *)
(* again and again.  Nothing obliges a thread to call, or the device to    *)
(* send.                                                                   *)
(***************************************************************************)
InitLive == Init /\ ttl = 600

NextLive == \E t \in Threads : ThreadStep(t) /\ UNCHANGED <<hs, aux>>

Frame(A) == A /\ UNCHANGED <<hs, aux>>

Fair(t) ==
    /\ SF_vars(Frame(Acquire(t)))
    /\ WF_vars(Frame(Check(t)))
    /\ WF_vars(Frame(Connect(t)))
    /\ WF_vars(Frame(Auth(t)))
    /\ WF_vars(Frame(Complete(t)))
    /\ WF_vars(Frame(Release(t)))
    /\ WF_vars(Frame(Avail(t)))
    /\ WF_vars(Frame(\E p \in Params : Read(t, p)))

SpecLive == InitLive /\ [][NextLive]_vars /\ \A t \in Threads : Fair(t)

\* C20: every parameter_value call that has started ends, and a thread that
\* holds the lock releases it.
C20_CallsTerminate ==
    \A t \in Threads :
        /\ (pc[t] # "idle") ~> (pc[t] = "done")
        /\ (lock = t) ~> (lock # t)

\* a caller waits for the lock while the holder's status wait has timed out
C20_Witness ==
    \E t, u \in Threads :
        t # u /\ pc[t] = "lock" /\ pc[u] = "unlock" /\ ev = "timeout"

====
